---- MODULE Spec2Model ----
(***************************************************************************)
(* A model of the lattice machine of src/src/lib.rs: BasicNode, the        *)
(* LatMachine operations on a BasicLattice and BasicLattice::from_node_list.*)
(*                                                                         *)
(* A node is a record of its payload's completion flag and its three       *)
(* HashMap<String, ()> key sets.  The payload's uuid is the key the node   *)
(* is stored under (NodeType::uuid is required to be stable), so a payload *)
(* is modelled by its is_completed() answer alone.  A HashMap<String, T>   *)
(* is a function whose DOMAIN is the map's key set.  The iteration order   *)
(* of a HashMap is unspecified: every loop over one ranges over all        *)
(* orders.                                                                 *)
(***************************************************************************)
EXTENDS Naturals, Sequences, FiniteSets, TLC

\* The uuids nodes are built with, and the keys calls may name ("Z" is
\* never the uuid of a node: an unknown key).
Ids == {"A", "B", "C"}
Keys == Ids \cup {"Z"}

\* The number of LatMachine calls made on a lattice after its construction.
MaxCalls == 2

\* The number of calls made on a lattice built from an arbitrary wiring.
MaxCycleCalls == 1

VARIABLES
    pending,     \* BasicLattice.pending
    fulfilled,   \* BasicLattice.fulfilled
    input,       \* the node list the lattice was (or will be) built from
    call,        \* the last call: [op, key, other, update]
    result,      \* what the last call returned
    trace,       \* the keys fulfill was invoked with during the last call
    old,         \* the lattice before the last call
    ncalls       \* calls made since construction

vars == <<pending, fulfilled, input, call, result, trace, old, ncalls>>

-----------------------------------------------------------------------------
(* HashMap<String, T> *)

Insert(m, k, v) == [x \in DOMAIN m \cup {k} |-> IF x = k THEN v ELSE m[x]]

Remove(m, k) == [x \in DOMAIN m \ {k} |-> m[x]]

EmptyMap == [x \in {} |-> TRUE]

\* The orders in which a loop may visit the key set S of a HashMap.
Orders(S) ==
    {o \in [1..Cardinality(S) -> S] : \A i, j \in 1..Cardinality(S) : o[i] = o[j] => i = j}

-----------------------------------------------------------------------------
(* BasicNode: ReadNode and WriteNode *)

\* BasicNode::new
new_node(t, depends_on, required_by) ==
    [completed |-> t, depends_on |-> depends_on,
     fulfilled_by |-> {}, required_by |-> required_by]

is_completed(n) == n.completed

\* ReadNode::is_active, lines 26-28.
is_active(n) == ~(~is_completed(n) /\ n.depends_on = {})

\* is_pending answering as is_active does (the two default methods sit side
\* by side in ReadNode and differ in one connective).
is_pending_as_is_active(n) == is_active(n)

is_pending(n) == n.depends_on # {} \/ ~is_completed(n)

add_depends_on(n, key) == [n EXCEPT !.depends_on = @ \cup {key}]

add_required_by(n, key) == [n EXCEPT !.required_by = @ \cup {key}]

\* depend_fulfilled without the insert of line 116: the key leaves
\* depends_on and is recorded nowhere.
depend_fulfilled_forgetting(n, key) ==
    IF key \notin n.depends_on
    THEN [ok |-> FALSE, node |-> n]
    ELSE [ok |-> TRUE, node |-> [n EXCEPT !.depends_on = @ \ {key}]]

\* Result<(), ()> and the node as the call leaves it.
depend_fulfilled(n, key) ==
    IF key \notin n.depends_on
    THEN [ok |-> FALSE, node |-> n]
    ELSE [ok |-> TRUE,
          node |-> [n EXCEPT !.depends_on = @ \ {key},
                             !.fulfilled_by = @ \cup {key}]]

\* BasicNode::update: base_data = t, always Ok.
update(n, t) == [n EXCEPT !.completed = t]

-----------------------------------------------------------------------------
(* LatMachine on BasicLattice.  A lattice value is [pending, fulfilled];   *)
(* an operation yields the set of its possible outcomes                    *)
(* [lat, res, trace], one per iteration order.                             *)

new == [pending |-> EmptyMap, fulfilled |-> EmptyMap]

Outcome(l, r, t) == [lat |-> l, res |-> r, trace |-> t]

append_pending(l, k, t) == [l EXCEPT !.pending = Insert(@, k, t)]

append_fulfilled(l, k, t) == [l EXCEPT !.fulfilled = Insert(@, k, t)]

\* append with its two branches swapped.
append_inverted(l, k, t) ==
    IF is_pending(t) THEN append_fulfilled(l, k, t) ELSE append_pending(l, k, t)

append(l, k, t) ==
    IF is_pending(t) THEN append_pending(l, k, t) ELSE append_fulfilled(l, k, t)

\* The loop queueing a dependent as soon as its depends_on is empty,
\* whatever its payload says.
RECURSIVE required_by_loop_ignoring_payload(_, _, _, _, _)
required_by_loop_ignoring_payload(pend, key, order, i, cascasde) ==
    IF i > Len(order)
    THEN [pending |-> pend, cascasde |-> cascasde, ok |-> TRUE]
    ELSE LET k == order[i] IN
         IF k \notin DOMAIN pend
         THEN [pending |-> pend, cascasde |-> cascasde, ok |-> FALSE]
         ELSE LET r == depend_fulfilled(pend[k], key) IN
              IF ~r.ok
              THEN [pending |-> pend, cascasde |-> cascasde, ok |-> FALSE]
              ELSE required_by_loop_ignoring_payload(
                       Insert(pend, k, r.node), key, order, i + 1,
                       IF r.node.depends_on = {} THEN Append(cascasde, k) ELSE cascasde)

\* The loop keeping only the last ready dependent it met: the queue is
\* overwritten instead of pushed to.
RECURSIVE required_by_loop_keeping_last(_, _, _, _, _)
required_by_loop_keeping_last(pend, key, order, i, cascasde) ==
    IF i > Len(order)
    THEN [pending |-> pend, cascasde |-> cascasde, ok |-> TRUE]
    ELSE LET k == order[i] IN
         IF k \notin DOMAIN pend
         THEN [pending |-> pend, cascasde |-> cascasde, ok |-> FALSE]
         ELSE LET r == depend_fulfilled(pend[k], key) IN
              IF ~r.ok
              THEN [pending |-> pend, cascasde |-> cascasde, ok |-> FALSE]
              ELSE required_by_loop_keeping_last(
                       Insert(pend, k, r.node), key, order, i + 1,
                       IF ~is_pending(r.node) THEN <<k>> ELSE cascasde)

\* The loop of fulfill over target.required_by, visited in `order` from
\* index i on: pend is `pending` with the target removed, cascasde the ids
\* queued so far.  ok is FALSE when the loop returned Err.
RECURSIVE required_by_loop(_, _, _, _, _)
required_by_loop(pend, key, order, i, cascasde) ==
    IF i > Len(order)
    THEN [pending |-> pend, cascasde |-> cascasde, ok |-> TRUE]
    ELSE LET k == order[i] IN
         IF k \notin DOMAIN pend
         THEN [pending |-> pend, cascasde |-> cascasde, ok |-> FALSE]
         ELSE LET r == depend_fulfilled(pend[k], key) IN
              IF ~r.ok
              THEN [pending |-> pend, cascasde |-> cascasde, ok |-> FALSE]
              ELSE required_by_loop(
                       Insert(pend, k, r.node), key, order, i + 1,
                       IF ~is_pending(r.node) THEN Append(cascasde, k) ELSE cascasde)

RECURSIVE fulfill(_, _)
RECURSIVE fulfill_cascade(_, _)

\* `for v in cascasde { self.fulfill(v)?; }`
fulfill_cascade(l, cascasde) ==
    IF cascasde = <<>>
    THEN {Outcome(l, "Ok", <<>>)}
    ELSE UNION {
           IF o.res = "Err"
           THEN {o}
           ELSE {[p EXCEPT !.trace = o.trace \o @] :
                     p \in fulfill_cascade(o.lat, Tail(cascasde))}
           : o \in fulfill(l, Head(cascasde))}

\* fulfill without the remove of line 183: the target is read from pending
\* and left there.
fulfill_keeping_pending(l, key) ==
    IF key \notin DOMAIN l.pending
    THEN {Outcome(l, "Err", <<key>>)}
    ELSE LET target == l.pending[key]
             pend == l.pending
         IN UNION {
              LET lp == required_by_loop(pend, key, order, 1, <<>>) IN
              IF ~lp.ok
              THEN {Outcome([l EXCEPT !.pending = lp.pending], "Err", <<key>>)}
              ELSE {[o EXCEPT !.trace = <<key>> \o @] :
                      o \in fulfill_cascade(
                               [pending |-> lp.pending,
                                fulfilled |-> Insert(l.fulfilled, key, target)],
                               lp.cascasde)}
              : order \in Orders(target.required_by)}

\* fulfill that backs out of a failed loop: the lattice is returned as it
\* was, the target still in pending.
fulfill_restoring(l, key) ==
    IF key \notin DOMAIN l.pending
    THEN {Outcome(l, "Err", <<key>>)}
    ELSE LET target == l.pending[key]
             pend == Remove(l.pending, key)
         IN UNION {
              LET lp == required_by_loop(pend, key, order, 1, <<>>) IN
              IF ~lp.ok
              THEN {Outcome(l, "Err", <<key>>)}
              ELSE {[o EXCEPT !.trace = <<key>> \o @] :
                      o \in fulfill_cascade(
                               [pending |-> lp.pending,
                                fulfilled |-> Insert(l.fulfilled, key, target)],
                               lp.cascasde)}
              : order \in Orders(target.required_by)}

fulfill(l, key) ==
    IF key \notin DOMAIN l.pending
    THEN {Outcome(l, "Err", <<key>>)}
    ELSE LET target == l.pending[key]
             pend == Remove(l.pending, key)
         IN UNION {
              LET lp == required_by_loop(pend, key, order, 1, <<>>) IN
              IF ~lp.ok
              THEN {Outcome([l EXCEPT !.pending = lp.pending], "Err", <<key>>)}
              ELSE {[o EXCEPT !.trace = <<key>> \o @] :
                      o \in fulfill_cascade(
                               [pending |-> lp.pending,
                                fulfilled |-> Insert(l.fulfilled, key, target)],
                               lp.cascasde)}
              : order \in Orders(target.required_by)}


\* update_value treating a key that is not in pending as nothing to do.
update_value_ignoring_missing(l, key, upd) ==
    IF key \notin DOMAIN l.pending
    THEN {Outcome(l, "Ok", <<>>)}
    ELSE LET t == update(l.pending[key], upd)
             m == [l EXCEPT !.pending = Insert(@, key, t)]
         IN IF is_completed(t)
            THEN fulfill(m, key)
            ELSE {Outcome(m, "Ok", <<>>)}

update_value(l, key, upd) ==
    IF key \notin DOMAIN l.pending
    THEN {Outcome(l, "Err", <<>>)}
    ELSE LET t == update(l.pending[key], upd)
             m == [l EXCEPT !.pending = Insert(@, key, t)]
         IN IF is_completed(t)
            THEN fulfill(m, key)
            ELSE {Outcome(m, "Ok", <<>>)}

\* update_required_by with the two answers swapped (Ok(false) for a pending
\* target, Ok(true) for a fulfilled one).
update_required_by_swapped(l, target, is_required_by) ==
    IF target \in DOMAIN l.pending
    THEN {Outcome([l EXCEPT !.pending[target] = add_required_by(@, is_required_by)],
                  "OkFalse", <<>>)}
    ELSE IF target \in DOMAIN l.fulfilled
         THEN {Outcome([l EXCEPT !.fulfilled[target] = add_required_by(@, is_required_by)],
                       "OkTrue", <<>>)}
         ELSE {Outcome(l, "Err", <<>>)}

\* Ok(true) is "OkTrue", Ok(false) is "OkFalse".
update_required_by(l, target, is_required_by) ==
    IF target \in DOMAIN l.pending
    THEN {Outcome([l EXCEPT !.pending[target] = add_required_by(@, is_required_by)],
                  "OkTrue", <<>>)}
    ELSE IF target \in DOMAIN l.fulfilled
         THEN {Outcome([l EXCEPT !.fulfilled[target] = add_required_by(@, is_required_by)],
                       "OkFalse", <<>>)}
         ELSE {Outcome(l, "Err", <<>>)}

\* update_depends_on adding the edge to a fulfilled target where it is
\* (get_mut as in update_required_by, in place of remove and append).
update_depends_on_in_place(l, target, depends_on) ==
    IF target \in DOMAIN l.pending
    THEN {Outcome([l EXCEPT !.pending[target] = add_depends_on(@, depends_on)],
                  "Ok", <<>>)}
    ELSE IF target \in DOMAIN l.fulfilled
         THEN {Outcome([l EXCEPT !.fulfilled[target] = add_depends_on(@, depends_on)],
                       "Ok", <<>>)}
         ELSE {Outcome(l, "Err", <<>>)}

update_depends_on(l, target, depends_on) ==
    IF target \in DOMAIN l.pending
    THEN {Outcome([l EXCEPT !.pending[target] = add_depends_on(@, depends_on)],
                  "Ok", <<>>)}
    ELSE IF target \in DOMAIN l.fulfilled
         THEN LET t == add_depends_on(l.fulfilled[target], depends_on)
              IN {Outcome(append([l EXCEPT !.fulfilled = Remove(@, target)], target, t),
                          "Ok", <<>>)}
         ELSE {Outcome(l, "Err", <<>>)}

\* The is_required side with the flag of line 318 never cleared: a
\* prerequisite found in fulfilled still counts as required.
add_requirement_is_required_flag_kept(l, requires, is_required) ==
    IF is_required \in DOMAIN l.pending
    THEN [found |-> TRUE, is_still_required |-> TRUE,
          lat |-> [l EXCEPT !.pending[is_required] = add_required_by(@, requires)]]
    ELSE IF is_required \in DOMAIN l.fulfilled
         THEN [found |-> TRUE, is_still_required |-> TRUE,
               lat |-> [l EXCEPT !.fulfilled[is_required] = add_required_by(@, requires)]]
         ELSE [found |-> FALSE, is_still_required |-> FALSE, lat |-> l]

\* Lines 320-331: the is_required side.  found is FALSE for the early
\* return Err; is_still_required is the flag of line 318.
add_requirement_is_required(l, requires, is_required) ==
    IF is_required \in DOMAIN l.pending
    THEN [found |-> TRUE, is_still_required |-> TRUE,
          lat |-> [l EXCEPT !.pending[is_required] = add_required_by(@, requires)]]
    ELSE IF is_required \in DOMAIN l.fulfilled
         THEN [found |-> TRUE, is_still_required |-> FALSE,
               lat |-> [l EXCEPT !.fulfilled[is_required] = add_required_by(@, requires)]]
         ELSE [found |-> FALSE, is_still_required |-> FALSE, lat |-> l]

\* The edge added without the depend_fulfilled that follows it.
add_unfulfilled_dependency(n, is_required) == add_depends_on(n, is_required)

\* add_depends_on followed by depend_fulfilled(..).unwrap(): the key was
\* just inserted, so the unwrap never panics.
add_fulfilled_dependency(n, is_required) ==
    depend_fulfilled(add_depends_on(n, is_required), is_required).node

\* add_requirement with the test of line 336 inverted: a pending requirer
\* has the new edge satisfied at once exactly when the prerequisite is
\* still pending.
add_requirement_inverted_test(l, requires, is_required) ==
    LET s == add_requirement_is_required(l, requires, is_required)
        m == s.lat
    IN IF ~s.found
       THEN {Outcome(l, "Err", <<>>)}
       ELSE IF requires \in DOMAIN m.pending
       THEN {Outcome(
               [m EXCEPT !.pending[requires] =
                   IF ~s.is_still_required
                   THEN add_depends_on(@, is_required)
                   ELSE add_fulfilled_dependency(@, is_required)],
               "Ok", <<>>)}
       ELSE IF s.is_still_required
       THEN IF requires \notin DOMAIN m.fulfilled
            THEN {Outcome(m, "Err", <<>>)}
            ELSE LET req == add_depends_on(m.fulfilled[requires], is_required)
                 IN {Outcome(append([m EXCEPT !.fulfilled = Remove(@, requires)],
                                    requires, req),
                             "Ok", <<>>)}
       ELSE IF requires \notin DOMAIN m.fulfilled
            THEN {Outcome(m, "Err", <<>>)}
            ELSE {Outcome(
                    [m EXCEPT !.fulfilled[requires] =
                        add_fulfilled_dependency(@, is_required)],
                    "Ok", <<>>)}

add_requirement(l, requires, is_required) ==
    LET s == add_requirement_is_required(l, requires, is_required)
        m == s.lat
    IN IF ~s.found
       THEN {Outcome(l, "Err", <<>>)}
       ELSE IF requires \in DOMAIN m.pending
       THEN {Outcome(
               [m EXCEPT !.pending[requires] =
                   IF s.is_still_required
                   THEN add_depends_on(@, is_required)
                   ELSE add_fulfilled_dependency(@, is_required)],
               "Ok", <<>>)}
       ELSE IF s.is_still_required
       THEN IF requires \notin DOMAIN m.fulfilled
            THEN {Outcome(m, "Err", <<>>)}
            ELSE LET req == add_depends_on(m.fulfilled[requires], is_required)
                 IN {Outcome(append([m EXCEPT !.fulfilled = Remove(@, requires)],
                                    requires, req),
                             "Ok", <<>>)}
       ELSE IF requires \notin DOMAIN m.fulfilled
            THEN {Outcome(m, "Err", <<>>)}
            ELSE {Outcome(
                    [m EXCEPT !.fulfilled[requires] =
                        add_fulfilled_dependency(@, is_required)],
                    "Ok", <<>>)}

-----------------------------------------------------------------------------
(* BasicLattice::from_node_list.  v is a sequence of [uuid, node].         *)

\* Lines 379-385: every node goes to pending; keys collects the uuids of
\* the nodes that are not pending, in list order.
\* The insertion loop collecting every node whose payload is complete,
\* whatever it depends on (the test update_value makes at line 260).
RECURSIVE insert_all_completed(_, _, _, _)
insert_all_completed(l, keys, v, i) ==
    IF i > Len(v)
    THEN [lat |-> l, keys |-> keys]
    ELSE insert_all_completed(
             append_pending(l, v[i].uuid, v[i].node),
             IF is_completed(v[i].node) THEN Append(keys, v[i].uuid) ELSE keys,
             v, i + 1)

RECURSIVE insert_all(_, _, _, _)
insert_all(l, keys, v, i) ==
    IF i > Len(v)
    THEN [lat |-> l, keys |-> keys]
    ELSE insert_all(append_pending(l, v[i].uuid, v[i].node),
                    IF ~is_pending(v[i].node) THEN Append(keys, v[i].uuid) ELSE keys,
                    v, i + 1)

\* Lines 387-389: `s.fulfill(key);` for each key, the Result dropped.  The
\* outcome's res is "Ok" when every one of these calls returned Ok, and
\* "Err" otherwise: the lattice is returned either way.
RECURSIVE fulfill_keys(_, _)
fulfill_keys(l, keys) ==
    IF keys = <<>>
    THEN {Outcome(l, "Ok", <<>>)}
    ELSE UNION {
           {[p EXCEPT !.trace = o.trace \o @,
                      !.res = IF o.res = "Err" THEN "Err" ELSE @] :
                p \in fulfill_keys(o.lat, Tail(keys))}
           : o \in fulfill(l, Head(keys))}

from_node_list(v) ==
    LET s == insert_all(new, <<>>, v, 1)
    IN fulfill_keys(s.lat, s.keys)


-----------------------------------------------------------------------------
(* The node lists lattices are built from.  <<x, y>> \in E says x depends  *)
(* on y; both ends of an edge record it (BasicNode::new is given both      *)
(* lists), so the lists mirror each other.                                 *)

\* The nodes with uuids S, payloads completed as c says, wired by E.
Nodes(S, E, c) ==
    [id \in S |-> new_node(c[id], {y \in S : <<id, y>> \in E},
                                  {x \in S : <<x, id>> \in E})]

\* Every list holding the nodes of `nodes`, each once.
Lists(nodes) ==
    {[i \in DOMAIN o |-> [uuid |-> o[i], node |-> nodes[o[i]]]] :
         o \in Orders(DOMAIN nodes)}

\* Edges that follow one fixed order of the uuids: every acyclic graph on
\* Ids is one of these up to renaming.
ForwardPairs == {<<"B", "A">>, <<"C", "A">>, <<"C", "B">>}

LatticeInputs ==
    {Nodes(Ids, E, c) : E \in SUBSET ForwardPairs, c \in [Ids -> BOOLEAN]}

\* Any wiring of any non-empty set of uuids, cycles and self-edges included.
ListInputs ==
    UNION {{Nodes(S, E, c) : E \in SUBSET (S \X S), c \in [S -> BOOLEAN]} :
               S \in SUBSET Ids \ {{}}}

-----------------------------------------------------------------------------
(* Calls *)

Call(op, key, other, upd) == [op |-> op, key |-> key, other |-> other, update |-> upd]

lattice == [pending |-> pending, fulfilled |-> fulfilled]

\* The state after a call c with outcome o.
Returns(c, o) ==
    /\ pending' = o.lat.pending
    /\ fulfilled' = o.lat.fulfilled
    /\ call' = c
    /\ result' = o.res
    /\ trace' = o.trace
    /\ old' = lattice
    /\ ncalls' = ncalls + 1
    /\ UNCHANGED input

\* A lattice as from_node_list returns it.
Init ==
    /\ input \in LatticeInputs
    /\ \E v \in Lists(input) : \E o \in from_node_list(v) :
          /\ pending = o.lat.pending
          /\ fulfilled = o.lat.fulfilled
          /\ result = o.res
          /\ trace = o.trace
    /\ call = Call("from_node_list", "-", "-", FALSE)
    /\ old = new
    /\ ncalls = 0

Fulfill(K) ==
    /\ ncalls < MaxCalls
    /\ \E key \in K : \E o \in fulfill(lattice, key) :
          Returns(Call("fulfill", key, "-", FALSE), o)

UpdateValue(K) ==
    /\ ncalls < MaxCalls
    /\ \E key \in K, upd \in BOOLEAN : \E o \in update_value(lattice, key, upd) :
          Returns(Call("update_value", key, "-", upd), o)

UpdateRequiredBy(K) ==
    /\ ncalls < MaxCalls
    /\ \E target \in K, by \in Ids : \E o \in update_required_by(lattice, target, by) :
          Returns(Call("update_required_by", target, by, FALSE), o)

UpdateDependsOn(K) ==
    /\ ncalls < MaxCalls
    /\ \E target \in K, on \in Ids : \E o \in update_depends_on(lattice, target, on) :
          Returns(Call("update_depends_on", target, on, FALSE), o)

AddRequirement(K) ==
    /\ ncalls < MaxCalls
    /\ \E requires \in K, is_required \in K :
          \E o \in add_requirement(lattice, requires, is_required) :
              Returns(Call("add_requirement", requires, is_required, FALSE), o)

\* Calls naming any key, the unknown one included, where a node is looked
\* up; the dependent or dependency an update_* call records is a uuid.
Next ==
    \/ Fulfill(Keys)
    \/ UpdateValue(Keys)
    \/ UpdateRequiredBy(Keys)
    \/ UpdateDependsOn(Keys)
    \/ AddRequirement(Keys)

Spec == Init /\ [][Next]_vars

\* Calls naming only uuids of nodes of the lattice's list.
NextKnown ==
    \/ Fulfill(Ids)
    \/ UpdateValue(Ids)
    \/ UpdateRequiredBy(Ids)
    \/ UpdateDependsOn(Ids)
    \/ AddRequirement(Ids)

SpecKnown == Init /\ [][NextKnown]_vars

\* Construction alone: an empty lattice and a list, then from_node_list.
InitList ==
    /\ input \in ListInputs
    /\ pending = new.pending
    /\ fulfilled = new.fulfilled
    /\ call = Call("new", "-", "-", FALSE)
    /\ result = "Ok"
    /\ trace = <<>>
    /\ old = new
    /\ ncalls = 0

FromNodeList ==
    /\ call.op = "new"
    /\ \E v \in Lists(input) : \E o \in from_node_list(v) :
          /\ pending' = o.lat.pending
          /\ fulfilled' = o.lat.fulfilled
          /\ call' = Call("from_node_list", "-", "-", FALSE)
          /\ result' = o.res
          /\ trace' = o.trace
          /\ old' = lattice
          /\ UNCHANGED <<input, ncalls>>

NextList == FromNodeList

SpecList == InitList /\ [][NextList]_vars

\* The calls that wire both ends of an edge or satisfy one, on uuids of the
\* list.
NextWired ==
    \/ Fulfill(Ids)
    \/ UpdateValue(Ids)
    \/ AddRequirement(Ids)

SpecWired == Init /\ [][NextWired]_vars

\* A lattice as from_node_list returns it for any wiring, cycles and
\* self-edges included, and then the calls that invoke fulfill.
InitCycle ==
    /\ input \in ListInputs
    /\ \E v \in Lists(input) : \E o \in from_node_list(v) :
          /\ pending = o.lat.pending
          /\ fulfilled = o.lat.fulfilled
          /\ result = o.res
          /\ trace = o.trace
    /\ call = Call("from_node_list", "-", "-", FALSE)
    /\ old = new
    /\ ncalls = 0

NextCycle ==
    \/ ncalls < MaxCycleCalls /\ Fulfill(Ids)
    \/ ncalls < MaxCycleCalls /\ UpdateValue(Ids)

SpecCycle == InitCycle /\ [][NextCycle]_vars


-----------------------------------------------------------------------------
(* Vocabulary of the properties *)

InPending(l, k) == k \in DOMAIN l.pending

InFulfilled(l, k) == k \in DOMAIN l.fulfilled

Present(l, k) == InPending(l, k) \/ InFulfilled(l, k)

\* The node stored under k, looked up in pending first as every call does.
NodeOf(l, k) == IF InPending(l, k) THEN l.pending[k] ELSE l.fulfilled[k]

\* depends_on empty and payload complete (the negation of is_pending,
\* spelled out so that it does not follow the code's predicate).
ReadyToFulfill(n) == n.depends_on = {} /\ n.completed

Called(op) == call.op = op

-----------------------------------------------------------------------------
(* C1 *)

\* C1 (P1, partition): every uuid of the list the lattice was built from is
\* in exactly one of pending and fulfilled, after any calls naming uuids of
\* the list (checked under SpecKnown).
PartitionInvariant ==
    \A id \in DOMAIN input : InPending(lattice, id) # InFulfilled(lattice, id)

-----------------------------------------------------------------------------
(* C2 *)

\* Every node of fulfilled is ready-to-fulfill and no node of pending is.
FiledByReadiness(l) ==
    /\ \A id \in DOMAIN l.fulfilled : ReadyToFulfill(l.fulfilled[id])
    /\ \A id \in DOMAIN l.pending : ~ReadyToFulfill(l.pending[id])

\* C2 (P2, fulfillment correctness): a successful from_node_list,
\* update_value or add_requirement on a lattice whose nodes are filed by
\* readiness leaves every node filed by readiness.
FulfillmentCorrectness ==
    (/\ call.op \in {"from_node_list", "update_value", "add_requirement"}
     /\ result = "Ok"
     /\ FiledByReadiness(old))
    => FiledByReadiness(lattice)

-----------------------------------------------------------------------------
(* C3 *)

\* C3: update_value with a complete payload on a pending node that still
\* has unmet dependencies succeeds without calling fulfill: the node stays
\* in pending and only its payload changes.
UpdateValueFulfillsOnlyWhenReady ==
    (/\ Called("update_value")
     /\ InPending(old, call.key)
     /\ call.update
     /\ old.pending[call.key].depends_on # {})
    => /\ result = "Ok"
       /\ trace = <<>>
       /\ lattice = [old EXCEPT !.pending[call.key].completed = TRUE]

-----------------------------------------------------------------------------
(* C4 *)

\* a, b, c are in pending, b depends solely on a and c solely on b, and
\* the edges are mirrored in required_by.
Chain(l, a, b, c) ==
    /\ a # b /\ b # c /\ a # c
    /\ InPending(l, a) /\ InPending(l, b) /\ InPending(l, c)
    /\ l.pending[b].depends_on = {a} /\ b \in l.pending[a].required_by
    /\ l.pending[c].depends_on = {b} /\ c \in l.pending[b].required_by

\* C4 as stated (P3, no condition on the payloads of b and c): one
\* successful fulfill(a) on a chain leaves a, b and c in fulfilled.
CascadeCompletenessAnyPayload ==
    \A a, b, c \in Ids :
        (Called("fulfill") /\ call.key = a /\ result = "Ok" /\ Chain(old, a, b, c))
        => {a, b, c} \subseteq DOMAIN fulfilled

\* C4 amended: when the payloads of b and c are complete, one successful
\* fulfill(a) on a chain leaves a, b and c in fulfilled and none in pending.
CascadeCompleteness ==
    \A a, b, c \in Ids :
        (/\ Called("fulfill") /\ call.key = a /\ result = "Ok"
         /\ Chain(old, a, b, c)
         /\ old.pending[b].completed /\ old.pending[c].completed)
        => /\ {a, b, c} \subseteq DOMAIN fulfilled
           /\ {a, b, c} \cap DOMAIN pending = {}

\* A chain with complete b and c was fulfilled from its head by one call.
CascadeCompletenessWitness ==
    \E a, b, c \in Ids :
        /\ Called("fulfill") /\ call.key = a /\ result = "Ok"
        /\ Chain(old, a, b, c)
        /\ old.pending[b].completed /\ old.pending[c].completed
        /\ trace = <<a, b, c>>
        /\ {a, b, c} \subseteq DOMAIN fulfilled


-----------------------------------------------------------------------------
(* C5 *)

\* The call was add_requirement(f, g) on a lattice holding f in fulfilled
\* with no dependents listed and g in pending.
ReopenCalled(f, g) ==
    /\ Called("add_requirement") /\ call.key = f /\ call.other = g
    /\ InFulfilled(old, f) /\ old.fulfilled[f].required_by = {}
    /\ InPending(old, g)

\* f is back in pending waiting on g alone, and g lists f.
Reopened(f, g) ==
    /\ result = "Ok"
    /\ InPending(lattice, f) /\ ~InFulfilled(lattice, f)
    /\ pending[f].depends_on = {g}
    /\ InPending(lattice, g) /\ f \in pending[g].required_by

\* What a next call that fulfills g may return: fulfill(g), or
\* update_value(g, _) when it fulfills g.
FulfillsOf(g) ==
    {o \in fulfill(lattice, g) \cup update_value(lattice, g, TRUE)
                               \cup update_value(lattice, g, FALSE) :
         o.res = "Ok" /\ InFulfilled(o.lat, g)}

\* Every successful fulfill of g made next moves f back to fulfilled.
FulfilledAgain(f, g) ==
    \A o \in FulfillsOf(g) :
        /\ InFulfilled(o.lat, f) /\ ~InPending(o.lat, f)
        /\ g \in o.lat.fulfilled[f].fulfilled_by
        /\ o.lat.fulfilled[f].depends_on = {}

\* C5 as stated (P5): for any f in fulfilled with empty required_by and g
\* in pending, add_requirement(f, g) leaves f in pending with
\* depends_on = {g}, and a successful fulfill of g then moves f back.
ReopeningOfAnyFulfilled ==
    \A f, g \in Ids :
        ReopenCalled(f, g) => Reopened(f, g) /\ FulfilledAgain(f, g)

\* C5 amended: the same when f, besides being in fulfilled, is
\* ready-to-fulfill (empty depends_on, complete payload).
Reopening ==
    \A f, g \in Ids :
        (ReopenCalled(f, g) /\ ReadyToFulfill(old.fulfilled[f]))
        => Reopened(f, g) /\ FulfilledAgain(f, g)

\* A node built ready and unwired was reopened by add_requirement(f, g)
\* and the next call, fulfill(g), moved it back to fulfilled.
ReopeningWitness ==
    \E f, g \in Ids :
        /\ ncalls = 2
        /\ ReadyToFulfill(input[f]) /\ input[f].required_by = {}
        /\ InPending(old, f) /\ old.pending[f].depends_on = {g}
        /\ InPending(old, g) /\ f \in old.pending[g].required_by
        /\ Called("fulfill") /\ call.key = g /\ result = "Ok"
        /\ trace = <<g, f>>
        /\ InFulfilled(lattice, f) /\ g \in fulfilled[f].fulfilled_by

-----------------------------------------------------------------------------
(* C6 *)

\* C6 (P6 and the pending requirer): add_requirement(r, p) with p in
\* fulfilled and r in the lattice moves no node between the collections
\* and leaves the edge recorded as satisfied: p in r.fulfilled_by, p not in
\* r.depends_on, r in p.required_by.
AlreadySatisfiedEdge ==
    \A r, p \in Keys :
        (/\ Called("add_requirement") /\ call.key = r /\ call.other = p
         /\ InFulfilled(old, p) /\ ~InPending(old, p)
         /\ Present(old, r))
        => /\ result = "Ok"
           /\ DOMAIN pending = DOMAIN old.pending
           /\ DOMAIN fulfilled = DOMAIN old.fulfilled
           /\ p \in NodeOf(lattice, r).fulfilled_by
           /\ p \notin NodeOf(lattice, r).depends_on
           /\ r \in fulfilled[p].required_by

\* add_requirement(r, p) was called with p fulfilled and r pending.
AlreadySatisfiedEdgeWitness ==
    \E r, p \in Ids :
        /\ Called("add_requirement") /\ call.key = r /\ call.other = p
        /\ InFulfilled(old, p) /\ InPending(old, r)
        /\ p \notin old.pending[r].fulfilled_by
        /\ InPending(lattice, r) /\ p \in pending[r].fulfilled_by

-----------------------------------------------------------------------------
(* C7 *)

\* C7 (I1): depends_on and fulfilled_by of every node are disjoint.
DependsOnDisjointFromFulfilledBy ==
    \A id \in Keys :
        Present(lattice, id)
        => NodeOf(lattice, id).depends_on \cap NodeOf(lattice, id).fulfilled_by = {}


-----------------------------------------------------------------------------
(* C8 *)

\* depends_on and required_by of the nodes mirror each other and stay
\* within the list.
Mirrored(nodes) ==
    \A x \in DOMAIN nodes :
        /\ nodes[x].depends_on \subseteq DOMAIN nodes
        /\ nodes[x].required_by \subseteq DOMAIN nodes
        /\ \A y \in DOMAIN nodes :
               y \in nodes[x].depends_on <=> x \in nodes[y].required_by

\* S and everything the nodes of S depend on, directly or not.
RECURSIVE DependsOnClosure(_, _)
DependsOnClosure(nodes, S) ==
    LET T == S \cup UNION {nodes[x].depends_on : x \in S}
    IN IF T = S THEN S ELSE DependsOnClosure(nodes, T)

TransitivePrerequisites(nodes, id) == DependsOnClosure(nodes, nodes[id].depends_on)

Acyclic(nodes) ==
    \A id \in DOMAIN nodes : id \notin TransitivePrerequisites(nodes, id)

\* The nodes whose payload and whose transitive prerequisites' payloads
\* are all complete.
Settled(nodes) ==
    {id \in DOMAIN nodes :
        /\ nodes[id].completed
        /\ \A p \in TransitivePrerequisites(nodes, id) : nodes[p].completed}

NoDuplicates(seq) == \A i, j \in DOMAIN seq : seq[i] = seq[j] => i = j

\* C8: from_node_list on a list of distinct, mirrored, acyclic nodes puts in
\* fulfilled exactly the settled nodes and every other node in pending;
\* fulfill is invoked once for each settled node and never fails.
FromNodeListSettles ==
    (Called("from_node_list") /\ Mirrored(input) /\ Acyclic(input))
    => /\ DOMAIN fulfilled = Settled(input)
       /\ DOMAIN pending = DOMAIN input \ Settled(input)
       /\ result = "Ok"
       /\ NoDuplicates(trace)
       /\ {trace[i] : i \in DOMAIN trace} = Settled(input)

\* A list was settled through a cascade: a node with two prerequisites was
\* fulfilled while another node stayed pending.
FromNodeListSettlesWitness ==
    /\ Called("from_node_list") /\ Mirrored(input) /\ Acyclic(input)
    /\ \E id \in DOMAIN fulfilled : Cardinality(fulfilled[id].fulfilled_by) = 2
    /\ Len(trace) = 3

-----------------------------------------------------------------------------
(* C9 *)

\* Every dependent y lists is in pending and holds y in depends_on.
DependentsWait(l, y) ==
    \A d \in NodeOf(l, y).required_by :
        InPending(l, d) /\ y \in l.pending[d].depends_on

\* fulfill(x) succeeded on a lattice where x was the last unmet
\* prerequisite of the pending node y, whose payload is incomplete.
LastPrerequisiteFulfilled(x, y) ==
    /\ Called("fulfill") /\ call.key = x /\ result = "Ok"
    /\ x # y
    /\ InPending(old, x) /\ y \in old.pending[x].required_by
    /\ InPending(old, y) /\ old.pending[y].depends_on = {x}
    /\ ~old.pending[y].completed

\* y is not promoted: it waits in pending with nothing left to wait for,
\* and no dependent of y has had its edge to y satisfied or altered (a
\* dependent of y that no fulfilled node lists is left exactly as it was).
NotPromoted(x, y) ==
    /\ InPending(lattice, y) /\ ~InFulfilled(lattice, y)
    /\ pending[y].depends_on = {}
    /\ x \in pending[y].fulfilled_by
    /\ \A i \in DOMAIN trace : trace[i] # y
    /\ \A d \in old.pending[y].required_by :
           Present(old, d) =>
              /\ Present(lattice, d)
              /\ (\A i \in DOMAIN trace : d \notin NodeOf(old, trace[i]).required_by)
                     => NodeOf(lattice, d) = NodeOf(old, d)
              /\ (y \in NodeOf(lattice, d).depends_on
                     <=> y \in NodeOf(old, d).depends_on)
              /\ (y \in NodeOf(lattice, d).fulfilled_by
                     <=> y \in NodeOf(old, d).fulfilled_by)

\* update_value(y, complete) was called on a pending y that had no unmet
\* prerequisite and whose dependents were waiting for it.
CompletedAfterwards(y) ==
    /\ Called("update_value") /\ call.key = y /\ call.update
    /\ InPending(old, y) /\ old.pending[y].depends_on = {}
    /\ DependentsWait(old, y)

\* y is in fulfilled and satisfied in each of its dependents.
PromotedAndSatisfied(y) ==
    /\ InFulfilled(lattice, y) /\ ~InPending(lattice, y)
    /\ \A d \in old.pending[y].required_by :
           /\ result = "Ok" => Present(lattice, d)
           /\ Present(lattice, d) =>
                 /\ y \in NodeOf(lattice, d).fulfilled_by
                 /\ y \notin NodeOf(lattice, d).depends_on

-----------------------------------------------------------------------------
(* C10 *)

\* C10: fulfill and update_value on a key absent from pending, and
\* update_required_by and update_depends_on on a target in neither
\* collection, return Err and leave the lattice as it was.
NotFoundChangesNothing ==
    /\ (/\ call.op \in {"fulfill", "update_value"}
        /\ ~InPending(old, call.key))
       => result = "Err" /\ lattice = old
    /\ (/\ call.op \in {"update_required_by", "update_depends_on"}
        /\ ~Present(old, call.key))
       => result = "Err" /\ lattice = old

\* update_value was called on a node that is in fulfilled, not in pending.
NotFoundChangesNothingWitness ==
    /\ Called("update_value")
    /\ InFulfilled(old, call.key) /\ ~InPending(old, call.key)
    /\ result = "Err"


-----------------------------------------------------------------------------
(* C11 *)

\* C11: an add_requirement that returns Err leaves the lattice as it was:
\* no node's edge sets and no node's collection differ.
AddRequirementFailsUnchanged ==
    (Called("add_requirement") /\ result = "Err") => lattice = old

-----------------------------------------------------------------------------
(* C12 *)

\* C12: update_required_by(target, dependent) answers true exactly for a
\* target in pending and false exactly for one in fulfilled, and changes
\* nothing but target.required_by, which gains dependent.
UpdateRequiredByAnswer ==
    Called("update_required_by") =>
        /\ result = "OkTrue" <=> InPending(old, call.key)
        /\ result = "OkFalse" <=> (InFulfilled(old, call.key) /\ ~InPending(old, call.key))
        /\ InPending(old, call.key) =>
              lattice = [old EXCEPT !.pending[call.key].required_by = @ \cup {call.other}]
        /\ (InFulfilled(old, call.key) /\ ~InPending(old, call.key)) =>
              lattice = [old EXCEPT !.fulfilled[call.key].required_by = @ \cup {call.other}]

\* update_required_by answered false for a fulfilled target and recorded
\* a dependent the target did not list.
UpdateRequiredByAnswerWitness ==
    /\ Called("update_required_by") /\ result = "OkFalse"
    /\ InFulfilled(old, call.key)
    /\ call.other \notin old.fulfilled[call.key].required_by
    /\ call.other \in fulfilled[call.key].required_by

-----------------------------------------------------------------------------
(* C13 *)

\* C13: update_depends_on(target, dependency) moves a fulfilled target to
\* pending with dependency in its depends_on, only adds dependency to a
\* pending target, and modifies no other node.
UpdateDependsOnReopens ==
    Called("update_depends_on") =>
        /\ (InFulfilled(old, call.key) /\ ~InPending(old, call.key)) =>
              /\ result = "Ok"
              /\ ~InFulfilled(lattice, call.key)
              /\ lattice =
                   [pending |-> Insert(old.pending, call.key,
                                   [old.fulfilled[call.key] EXCEPT
                                       !.depends_on = @ \cup {call.other}]),
                    fulfilled |-> Remove(old.fulfilled, call.key)]
        /\ InPending(old, call.key) =>
              /\ result = "Ok"
              /\ lattice = [old EXCEPT !.pending[call.key].depends_on = @ \cup {call.other}]

\* update_depends_on moved a fulfilled target back to pending.
UpdateDependsOnReopensWitness ==
    /\ Called("update_depends_on") /\ result = "Ok"
    /\ InFulfilled(old, call.key)
    /\ InPending(lattice, call.key) /\ ~InFulfilled(lattice, call.key)
    /\ call.other \in pending[call.key].depends_on


-----------------------------------------------------------------------------
(* C14 *)

\* The outcomes of making the last call once more, on the lattice it left.
Repeated ==
    CASE Called("update_required_by") -> update_required_by(lattice, call.key, call.other)
      [] Called("update_depends_on") -> update_depends_on(lattice, call.key, call.other)
      [] Called("add_requirement") -> add_requirement(lattice, call.key, call.other)
      [] OTHER -> {}

\* C14 (P4, idempotent edge insertion): inserting a key a node's
\* depends_on or required_by already holds changes nothing, and a
\* successful update_required_by, update_depends_on or add_requirement made
\* a second time with the same arguments leaves the lattice as the first
\* call left it.
IdempotentEdgeInsertion ==
    /\ \A id \in Keys : Present(lattice, id) =>
          \A k \in Keys :
             LET n == NodeOf(lattice, id) IN
             /\ add_depends_on(add_depends_on(n, k), k) = add_depends_on(n, k)
             /\ add_required_by(add_required_by(n, k), k) = add_required_by(n, k)
             /\ k \in n.depends_on => add_depends_on(n, k) = n
             /\ k \in n.required_by => add_required_by(n, k) = n
    /\ result # "Err" =>
          \A o \in Repeated : o.res # "Err" => o.lat = lattice

\* add_requirement reopened its requirer, and made once more it succeeds
\* and changes nothing.
IdempotentEdgeInsertionWitness ==
    /\ Called("add_requirement") /\ result = "Ok"
    /\ InFulfilled(old, call.key) /\ InPending(lattice, call.key)
    /\ \E o \in Repeated : o.res = "Ok" /\ o.lat = lattice


-----------------------------------------------------------------------------
(* C15 *)

\* Some entry of the node's required_by is not in pending, or is in pending
\* without the node in its depends_on (lines 188-197).
FaultyDependent(l, id) ==
    \E k \in l.pending[id].required_by :
        \/ k \notin DOMAIN Remove(l.pending, id)
        \/ id \notin l.pending[k].depends_on

\* C15: fulfill(id) on a pending id whose required_by names an entry that
\* is not in pending, or that is in pending without id in its depends_on,
\* returns an error and leaves id in neither pending nor fulfilled.
FailedFulfillDropsTarget ==
    (/\ Called("fulfill")
     /\ InPending(old, call.key)
     /\ FaultyDependent(old, call.key))
        => /\ result = "Err"
           /\ ~Present(lattice, call.key)
           /\ trace = <<call.key>>

\* fulfill failed on a pending id with a faulty dependent, and the id is
\* gone from both collections.
FailedFulfillDropsTargetWitness ==
    /\ Called("fulfill") /\ result = "Err"
    /\ InPending(old, call.key) /\ FaultyDependent(old, call.key)
    /\ ~Present(lattice, call.key)

-----------------------------------------------------------------------------
(* C16 *)

\* The first call was add_requirement(f, g) on the lattice from_node_list
\* built, where the cascade had fulfilled f and satisfied the edge of each
\* of its dependents, and g was pending with nothing left to wait for but
\* its payload.
ReopenedWithDependents(f, g) ==
    /\ ncalls = 1
    /\ Called("add_requirement") /\ call.key = f /\ call.other = g
    /\ FiledByReadiness(old)
    /\ InFulfilled(old, f)
    /\ old.fulfilled[f].required_by # {}
    /\ \A d \in old.fulfilled[f].required_by :
          Present(old, d) /\ f \in NodeOf(old, d).fulfilled_by
    /\ InPending(old, g) /\ old.pending[g].depends_on = {}

\* C16: when f was fulfilled through the cascade and has dependents whose
\* edge to f is satisfied, add_requirement(f, g) with g in pending followed
\* by fulfilling g makes every fulfill of the cascade succeed and ends with
\* f and g in fulfilled and every node in one of the collections.
RefulfilmentWithDependents ==
    \A f, g \in Ids :
        ReopenedWithDependents(f, g) =>
            \A o \in update_value(lattice, g, TRUE) :
                /\ o.res = "Ok"
                /\ InFulfilled(o.lat, f) /\ InFulfilled(o.lat, g)
                /\ \A id \in DOMAIN input : Present(o.lat, id)

-----------------------------------------------------------------------------
(* C17 *)

\* id was in fulfilled before the last call and is not there after it.
LeftFulfilled(id) ==
    ncalls > 0 /\ InFulfilled(old, id) /\ ~InFulfilled(lattice, id)

\* C17: fulfill, update_value and update_required_by never remove a node
\* from fulfilled; a node leaves fulfilled only through
\* update_depends_on(node, _) or through add_requirement(node, prerequisite)
\* with the prerequisite in pending.
FulfilledTerminalUnlessReopened ==
    \A id \in Keys :
        LeftFulfilled(id) =>
            \/ Called("update_depends_on") /\ call.key = id
            \/ /\ Called("add_requirement") /\ call.key = id
               /\ InPending(old, call.other)

\* add_requirement with a pending prerequisite took its requirer out of
\* fulfilled, and another node of fulfilled stayed where it was.
FulfilledTerminalUnlessReopenedWitness ==
    \E id, other \in Ids :
        /\ id # other
        /\ LeftFulfilled(id) /\ InPending(lattice, id)
        /\ Called("add_requirement") /\ call.key = id
        /\ InPending(old, call.other)
        /\ InFulfilled(old, other) /\ InFulfilled(lattice, other)

-----------------------------------------------------------------------------
(* C18 *)

\* The ids fulfill was invoked with during the last call.
Invoked == {trace[i] : i \in DOMAIN trace}

\* C18: a call to fulfill (direct, or made by update_value) terminates in
\* every lattice state, cycles and self-edges included: nothing is added to
\* pending, every invocation that finds its id in pending removes it, no id
\* is fulfilled twice, and the invocations number at most the nodes in
\* pending when the outer call started.  An outer call whose id is not in
\* pending is the one invocation that fails at once, changing nothing.
CascadeBounded ==
    (Called("fulfill") \/ Called("update_value")) =>
        /\ DOMAIN pending \subseteq DOMAIN old.pending
        /\ NoDuplicates(trace)
        /\ InPending(old, call.key) =>
              /\ Invoked \subseteq DOMAIN old.pending
              /\ Invoked \cap DOMAIN pending = {}
              /\ Len(trace) <= Cardinality(DOMAIN old.pending)
        /\ ~InPending(old, call.key) =>
              /\ trace = IF Called("fulfill") THEN <<call.key>> ELSE <<>>
              /\ pending = old.pending

\* fulfill was called on a node that is its own prerequisite through a
\* cycle, and the cascade came back to the cycle before it ended.
CascadeBoundedWitness ==
    /\ Called("fulfill")
    /\ call.key \in DOMAIN input
    /\ call.key \in TransitivePrerequisites(input, call.key)
    /\ InPending(old, call.key)
    /\ Len(trace) >= 2

-----------------------------------------------------------------------------
(* C19 *)

EdgeConsistent(l) ==
    \A x, y \in Ids :
        (Present(l, x) /\ Present(l, y)) =>
            (y \in NodeOf(l, x).required_by
                <=> x \in NodeOf(l, y).depends_on \cup NodeOf(l, y).fulfilled_by)

\* C19: from a lattice from_node_list built from a mirrored list, after any
\* add_requirement, update_value and fulfill calls, for all nodes X and Y in
\* the lattice, Y is in X.required_by iff X is in Y.depends_on or in
\* Y.fulfilled_by (checked under SpecWired, failed calls included).
BidirectionalEdgeConsistency ==
    Mirrored(input) => EdgeConsistent(lattice)

\* add_requirement added an edge the list did not have and a successful
\* fulfill then satisfied it.
BidirectionalEdgeConsistencyWitness ==
    /\ ncalls = 2
    /\ Called("fulfill") /\ result = "Ok"
    /\ \E x, y \in Ids :
          /\ x = call.key
          /\ InFulfilled(lattice, x) /\ Present(lattice, y)
          /\ y \notin input[x].required_by
          /\ y \in fulfilled[x].required_by
          /\ x \in NodeOf(lattice, y).fulfilled_by
          /\ x \in NodeOf(old, y).depends_on

-----------------------------------------------------------------------------
(* C20 *)

\* C20: a fulfill(id) call that succeeds leaves the same pending and
\* fulfilled collections, node for node, for every order in which the
\* required_by entries are iterated and the queued ids then fulfilled: every
\* order succeeds, with the lattice the call left.
CascadeOrderIndependent ==
    (Called("fulfill") /\ result = "Ok") =>
        \A o \in fulfill(old, call.key) : o.res = "Ok" /\ o.lat = lattice

\* A successful fulfill that two iteration orders carry out with the
\* cascade's invocations in different sequence.
CascadeOrderIndependentWitness ==
    /\ Called("fulfill") /\ result = "Ok"
    /\ Len(trace) >= 3
    /\ \E o \in fulfill(old, call.key) : o.trace # trace /\ o.lat = lattice

====
